---- MODULE Spec2Model ----
(***************************************************************************)
(* Model of blog.py: the LoRA impact analysis over the throughput metrics  *)
(* of four experiments (precise/random scheduling, with/without LoRA).     *)
(*                                                                         *)
(* The state is the state of the running script: the position of the main  *)
(* loop over the metrics files, the four loaded metric dictionaries, the   *)
(* frame of plot_lora_impact (loop index, subplots drawn so far), the      *)
(* frame of plot_single_metric, the local variables of the delta           *)
(* computation, the raised exception (if any) and the chart files written  *)
(* so far.                                                                 *)
(*                                                                         *)
(* Metric values are JSON numbers; the model takes them from a bounded     *)
(* range of integers and carries the percentages as exact fractions        *)
(* <<numerator, denominator>> in lowest terms (Python computes them in     *)
(* binary floating point; rounding is outside the model).                  *)
(***************************************************************************)
EXTENDS Integers, Sequences, FiniteSets, TLC

VARIABLES
    pc,                 \* position: "main", "loop", "individual", "single", "returned", "done"
    err,                \* the exception that ended the run, "none" while running
    fileIdx,            \* index in summary_fnames of the file of the main loop
    sets,               \* the four metric dictionaries (name -> dict)
    plot_fname_prefix,  \* argument of plot_lora_impact / plot_single_metric
    create_individual,  \* argument of plot_lora_impact
    idx,                \* loop index of plot_lora_impact (1-based)
    axes,               \* the subplots drawn so far in the combined figure
    sidx,               \* position of the loop over individual plots (1-based)
    metric_key,         \* the metric_key variable of the active frame
    locals,             \* locals of the delta computation of the active frame
    charts,             \* the chart files saved so far, in order
    stack               \* return positions of the active calls of plot_single_metric

vars == <<pc, err, fileIdx, sets, plot_fname_prefix, create_individual, idx,
          axes, sidx, metric_key, locals, charts, stack>>

----------------------------------------------------------------------------
(* Bounds of the model *)

\* metric values range over 0..MaxVal in a direct call
MaxVal == 2
\* metric values of a loaded file range over 1..MaxRunVal in a full run
MaxRunVal == 1
\* at most this many entries of the four dictionaries are missing or zeroed
MaxDefects == 1

----------------------------------------------------------------------------
(* Program constants *)

\* range(17) of the stage files
NumStages == 17

LifecycleSuffix == "_lifecycle_metrics.json"

\* summary_fnames: the summary file, then stage_0 .. stage_16
summary_fnames ==
    <<[stem |-> "summary", stage |-> -1, suffix |-> LifecycleSuffix]>> \o
    [i \in 1..NumStages |-> [stem |-> "stage", stage |-> i - 1, suffix |-> LifecycleSuffix]]

\* fname.removesuffix('_lifecycle_metrics.json')
RemoveSuffix(fname) ==
    IF fname.suffix = LifecycleSuffix
    THEN [stem |-> fname.stem, stage |-> fname.stage]
    ELSE fname

is_summaryAlways(fname) == TRUE

\* fname == 'summary_lifecycle_metrics.json'
is_summary(fname) ==
    fname = [stem |-> "summary", stage |-> -1, suffix |-> LifecycleSuffix]

metricsReordered ==
    << [metric_key |-> "total_tokens_per_sec",  ylabel |-> "Total Tokens/sec",  title |-> "Total Throughput"],
       [metric_key |-> "output_tokens_per_sec", ylabel |-> "Output Tokens/sec", title |-> "Output Throughput"],
       [metric_key |-> "input_tokens_per_sec",  ylabel |-> "Input Tokens/sec",  title |-> "Input Throughput"],
       [metric_key |-> "requests_per_sec",      ylabel |-> "Requests/sec",      title |-> "Request Rate"] >>

\* the metrics list of plot_lora_impact
metrics ==
    << [metric_key |-> "total_tokens_per_sec",  ylabel |-> "Total Tokens/sec",  title |-> "Total Throughput"],
       [metric_key |-> "input_tokens_per_sec",  ylabel |-> "Input Tokens/sec",  title |-> "Input Throughput"],
       [metric_key |-> "output_tokens_per_sec", ylabel |-> "Output Tokens/sec", title |-> "Output Throughput"],
       [metric_key |-> "requests_per_sec",      ylabel |-> "Requests/sec",      title |-> "Request Rate"] >>

\* metric_key.replace('_per_sec', '').replace('_', '-')
MetricName(key) ==
    CASE key = "total_tokens_per_sec"  -> "total-tokens"
      [] key = "input_tokens_per_sec"  -> "input-tokens"
      [] key = "output_tokens_per_sec" -> "output-tokens"
      [] key = "requests_per_sec"      -> "requests"
      [] OTHER                         -> key

CombinedName == "lora_impact_comparison"

----------------------------------------------------------------------------
(* Exact arithmetic of the percentages *)

Abs(n) == IF n < 0 THEN -n ELSE n

RECURSIVE GCD(_, _)
GCD(a, b) == IF b = 0 THEN a ELSE GCD(b, a % b)

\* the fraction n/d (d # 0) in lowest terms with a positive denominator
Frac(n, d) ==
    LET g == GCD(Abs(n), Abs(d))
        s == IF d < 0 THEN -1 ELSE 1
    IN  << (s * n) \div g, (s * d) \div g >>

\* a / b of two numbers, b # 0
Div(a, b) == Frac(a, b)

\* q * n of a fraction and a number
Times(q, n) == Frac(q[1] * n, q[2])

----------------------------------------------------------------------------
(* The delta computation *)

\* no local of the delta computation is bound
NoLocals == [x \in {} |-> 0]

Failure(e) == [err |-> e, val |-> NoLocals]

\* the locals bound by one run of the delta computation
Bound(p_wo, p_w, r_wo, r_w, gap_wo, gap_w, pct_wo, pct_w, increase) ==
    [err |-> "none",
     val |-> [precise_wo |-> p_wo, precise_w |-> p_w,
              random_wo |-> r_wo, random_w |-> r_w,
              wo_lora_gap |-> gap_wo, w_lora_gap |-> gap_w,
              wo_lora_pct |-> pct_wo, w_lora_pct |-> pct_w,
              gap_increase |-> increase]]

\* d[key] raises KeyError when the key is absent
HasKey(d, key) == key \in DOMAIN d

(* Variants of the delta computation, each with one plausible slip *)

\* d.get(key, 0): the value of a dictionary, 0 when the key is absent
GetOrZero(d, key) == IF key \in DOMAIN d THEN d[key] ELSE 0

\* the delta computation with the slip named by kind
VariantDelta(s, key, kind) ==
    IF kind # "get_default" /\ \E n \in DOMAIN s : key \notin DOMAIN s[n]
    THEN Failure("KeyError")
    ELSE
      LET precise_wo == GetOrZero(s.precise_wo_lora, key)
          precise_w == GetOrZero(s.precise_w_lora, key)
          random_wo == GetOrZero(s.random_wo_lora, key)
          random_w == GetOrZero(s.random_w_lora, key)
          wo_lora_gap == CASE kind = "flipped" -> random_wo - precise_wo
                           [] kind = "abs" -> Abs(precise_wo - random_wo)
                           [] OTHER -> precise_wo - random_wo
          w_lora_gap == CASE kind = "flipped" -> random_w - precise_w
                          [] kind = "abs" -> Abs(precise_w - random_w)
                          [] OTHER -> precise_w - random_w
          wo_den == IF kind = "by_treatment" THEN random_wo ELSE precise_wo
          w_den == IF kind = "by_treatment" THEN random_w ELSE precise_w
          Pct(gap, den) == IF den = 0 THEN <<1, 0>> ELSE Times(Div(gap, den), 100)
      IN  IF kind # "inf" /\ (wo_den = 0 \/ w_den = 0)
          THEN Failure("ZeroDivisionError")
          ELSE Bound(precise_wo, precise_w, random_wo, random_w,
                     wo_lora_gap, w_lora_gap,
                     Pct(wo_lora_gap, wo_den), Pct(w_lora_gap, w_den),
                     IF kind = "reversed_increase"
                     THEN wo_lora_gap - w_lora_gap
                     ELSE w_lora_gap - wo_lora_gap)

\* the percentages are divided by the random (treatment) values
LoraImpactDeltaByTreatment(s, key) == VariantDelta(s, key, "by_treatment")

\* a zero baseline gives an infinite percentage instead of an exception
LoraImpactDeltaInf(s, key) == VariantDelta(s, key, "inf")

\* the gap increase is taken without-LoRA minus with-LoRA
LoraImpactDeltaReversedIncrease(s, key) == VariantDelta(s, key, "reversed_increase")

\* the gaps are taken as absolute values
LoraImpactDeltaAbs(s, key) == VariantDelta(s, key, "abs")

\* an absent key reads as 0 instead of raising KeyError
LoraImpactDeltaGetDefault(s, key) == VariantDelta(s, key, "get_default")

\* the gaps are taken random minus precise
SingleMetricDeltaFlipped(s, key) == VariantDelta(s, key, "flipped")

\* the body of the loop of plot_lora_impact up to gap_increase
LoraImpactDelta(s, key) ==
    IF ~ HasKey(s.precise_wo_lora, key) THEN Failure("KeyError")
    ELSE IF ~ HasKey(s.precise_w_lora, key) THEN Failure("KeyError")
    ELSE IF ~ HasKey(s.random_wo_lora, key) THEN Failure("KeyError")
    ELSE IF ~ HasKey(s.random_w_lora, key) THEN Failure("KeyError")
    ELSE
      LET precise_wo == s.precise_wo_lora[key]
          precise_w == s.precise_w_lora[key]
          random_wo == s.random_wo_lora[key]
          random_w == s.random_w_lora[key]
          wo_lora_gap == precise_wo - random_wo
          w_lora_gap == precise_w - random_w
      IN  IF precise_wo = 0 THEN Failure("ZeroDivisionError")
          ELSE IF precise_w = 0 THEN Failure("ZeroDivisionError")
          ELSE Bound(precise_wo, precise_w, random_wo, random_w,
                     wo_lora_gap, w_lora_gap,
                     Times(Div(wo_lora_gap, precise_wo), 100),
                     Times(Div(w_lora_gap, precise_w), 100),
                     w_lora_gap - wo_lora_gap)

\* plot_single_metric up to gap_increase
SingleMetricDelta(s, key) ==
    IF ~ HasKey(s.precise_wo_lora, key) THEN Failure("KeyError")
    ELSE IF ~ HasKey(s.precise_w_lora, key) THEN Failure("KeyError")
    ELSE IF ~ HasKey(s.random_wo_lora, key) THEN Failure("KeyError")
    ELSE IF ~ HasKey(s.random_w_lora, key) THEN Failure("KeyError")
    ELSE
      LET precise_wo == s.precise_wo_lora[key]
          precise_w == s.precise_w_lora[key]
          random_wo == s.random_wo_lora[key]
          random_w == s.random_w_lora[key]
          wo_lora_gap == precise_wo - random_wo
          w_lora_gap == precise_w - random_w
      IN  IF precise_wo = 0 THEN Failure("ZeroDivisionError")
          ELSE IF precise_w = 0 THEN Failure("ZeroDivisionError")
          ELSE Bound(precise_wo, precise_w, random_wo, random_w,
                     wo_lora_gap, w_lora_gap,
                     Times(Div(wo_lora_gap, precise_wo), 100),
                     Times(Div(w_lora_gap, precise_w), 100),
                     w_lora_gap - wo_lora_gap)

\* what the loop body draws on axes[idx]: bars and gap annotations
Subplot(m, v) ==
    [metric_key |-> m.metric_key, title |-> m.title, ylabel |-> m.ylabel,
     precise_vals |-> <<v.precise_w, v.precise_wo>>,
     random_vals |-> <<v.random_w, v.random_wo>>,
     gaps |-> <<v.w_lora_gap, v.wo_lora_gap>>,
     percentages |-> <<v.w_lora_pct, v.wo_lora_pct>>]

----------------------------------------------------------------------------
(* The inputs: bounded families of four metric dictionaries *)

Keys == {metrics[i].metric_key : i \in 1..Len(metrics)}

SetNames == {"precise_w_lora", "random_w_lora", "precise_wo_lora", "random_wo_lora"}

PreciseNames == {"precise_w_lora", "precise_wo_lora"}

\* a defect removes one key of one dictionary, or zeroes one baseline value
DefectOptions ==
    {<<s, k, "missing">> : s \in SetNames, k \in Keys} \cup
    {<<s, k, "zero">> : s \in PreciseNames, k \in Keys}

\* the sets of at most n defects, no two of them at the same entry
RECURSIVE DefectSets(_)
DefectSets(n) ==
    IF n = 0 THEN {{}}
    ELSE LET P == DefectSets(n - 1)
         IN  P \cup UNION {{D \cup {x} :
                               x \in {o \in DefectOptions :
                                        \A y \in D : <<y[1], y[2]>> # <<o[1], o[2]>>}} :
                            D \in P}

\* every key of dictionary s holds v[s], but for the defects
MakeSets(v, D) ==
    [s \in SetNames |->
        [k \in {q \in Keys : <<s, q, "missing">> \notin D} |->
            IF <<s, k, "zero">> \in D THEN 0 ELSE v[s]]]

MetricSetInputs(vals, n) ==
    {MakeSets(v, D) : v \in [SetNames -> vals], D \in DefectSets(n)}

\* the dictionaries a direct call is checked on
CallInputs == MetricSetInputs(0..MaxVal, MaxDefects)

\* the dictionaries a file of a full run may hold
RunInputs == MetricSetInputs(1..MaxRunVal, MaxDefects)

\* the variables of the main script before the first load
Unloaded == [s \in SetNames |-> [k \in {} |-> 0]]

----------------------------------------------------------------------------
(* The script: lines 237-254 *)

Init ==
    /\ pc = "main"
    /\ err = "none"
    /\ fileIdx = 1
    /\ sets = Unloaded
    /\ plot_fname_prefix = RemoveSuffix(summary_fnames[1])
    /\ create_individual = FALSE
    /\ idx = 1
    /\ axes = <<>>
    /\ sidx = 1
    /\ metric_key = ""
    /\ locals = NoLocals
    /\ charts = <<>>
    /\ stack = <<>>

\* LoadMetrics with the load wrapped in try/except-continue
LoadMetricsSkipOnError ==
    /\ pc = "main"
    /\ err = "none"
    /\ fileIdx <= Len(summary_fnames)
    /\ \/ /\ fileIdx' = fileIdx + 1
          /\ pc' = IF fileIdx + 1 > Len(summary_fnames) THEN "done" ELSE "main"
          /\ UNCHANGED <<err, sets, plot_fname_prefix, create_individual,
                         idx, axes, sidx, metric_key, locals, charts, stack>>
       \/ /\ \E loaded \in RunInputs : sets' = loaded
          /\ plot_fname_prefix' = RemoveSuffix(summary_fnames[fileIdx])
          /\ create_individual' = is_summary(summary_fnames[fileIdx])
          /\ pc' = "loop"
          /\ idx' = 1
          /\ axes' = <<>>
          /\ metric_key' = ""
          /\ locals' = NoLocals
          /\ UNCHANGED <<err, fileIdx, sidx, charts, stack>>

\* one pass of the for loop of the script up to the call of plot_lora_impact:
\* the four loads, any of which may raise (missing file, malformed JSON,
\* no successes/throughput object), then the call
LoadMetrics ==
    /\ pc = "main"
    /\ err = "none"
    /\ fileIdx <= Len(summary_fnames)
    /\ \/ /\ err' = "LoadError"
          /\ UNCHANGED <<pc, fileIdx, sets, plot_fname_prefix, create_individual,
                         idx, axes, sidx, metric_key, locals, charts, stack>>
       \/ /\ \E loaded \in RunInputs : sets' = loaded
          /\ plot_fname_prefix' = RemoveSuffix(summary_fnames[fileIdx])
          /\ create_individual' = is_summary(summary_fnames[fileIdx])
          /\ pc' = "loop"
          /\ idx' = 1
          /\ axes' = <<>>
          /\ metric_key' = ""
          /\ locals' = NoLocals
          /\ UNCHANGED <<err, fileIdx, sidx, charts, stack>>

\* plot_lora_impact has returned to the script: the next file, or the end
NextFile ==
    /\ pc = "returned"
    /\ err = "none"
    /\ fileIdx' = fileIdx + 1
    /\ pc' = IF fileIdx + 1 > Len(summary_fnames) THEN "done" ELSE "main"
    /\ UNCHANGED <<err, sets, plot_fname_prefix, create_individual, idx, axes,
                   sidx, metric_key, locals, charts, stack>>

----------------------------------------------------------------------------
(* plot_lora_impact: lines 116-234 *)

\* the dictionary without the key: what d.pop(key) leaves
Popped(d, key) == [k \in DOMAIN d \ {key} |-> d[k]]

\* LoopBody reading the baseline with precise_wo_lora.pop(metric_key)
LoopBodyPop ==
    /\ pc = "loop"
    /\ err = "none"
    /\ idx <= Len(metrics)
    /\ LET m == metrics[idx]
           d == LoraImpactDelta(sets, m.metric_key)
       IN  /\ metric_key' = m.metric_key
           /\ sets' = [sets EXCEPT !.precise_wo_lora = Popped(@, m.metric_key)]
           /\ IF d.err # "none"
              THEN /\ err' = d.err
                   /\ UNCHANGED <<idx, axes, locals>>
              ELSE /\ locals' = d.val
                   /\ axes' = Append(axes, Subplot(m, d.val))
                   /\ idx' = idx + 1
                   /\ UNCHANGED err
    /\ UNCHANGED <<pc, fileIdx, plot_fname_prefix, create_individual,
                   sidx, charts, stack>>

\* one iteration of the loop over metrics (lines 137-213)
LoopBody ==
    /\ pc = "loop"
    /\ err = "none"
    /\ idx <= Len(metrics)
    /\ LET m == metrics[idx]
           d == LoraImpactDelta(sets, m.metric_key)
       IN  /\ metric_key' = m.metric_key
           /\ IF d.err # "none"
              THEN /\ err' = d.err
                   /\ UNCHANGED <<idx, axes, locals>>
              ELSE /\ locals' = d.val
                   /\ axes' = Append(axes, Subplot(m, d.val))
                   /\ idx' = idx + 1
                   /\ UNCHANGED err
    /\ UNCHANGED <<pc, fileIdx, sets, plot_fname_prefix, create_individual,
                   sidx, charts, stack>>

\* after the loop: the combined chart is saved (lines 215-226)
SaveCombined ==
    /\ pc = "loop"
    /\ err = "none"
    /\ idx > Len(metrics)
    /\ charts' = Append(charts, [prefix |-> plot_fname_prefix, name |-> CombinedName])
    /\ pc' = "individual"
    /\ sidx' = 1
    /\ UNCHANGED <<err, fileIdx, sets, plot_fname_prefix, create_individual,
                   idx, axes, metric_key, locals, stack>>

\* the loop over individual plots (lines 229-234): the next call of
\* plot_single_metric, or the return of plot_lora_impact
IndividualLoop ==
    /\ pc = "individual"
    /\ err = "none"
    /\ IF create_individual /\ sidx <= Len(metrics)
       THEN /\ metric_key' = metrics[sidx].metric_key
            /\ sidx' = sidx + 1
            /\ stack' = Append(stack, "individual")
            /\ locals' = NoLocals
            /\ pc' = "single"
       ELSE /\ pc' = "returned"
            /\ UNCHANGED <<metric_key, sidx, stack, locals>>
    /\ UNCHANGED <<err, fileIdx, sets, plot_fname_prefix, create_individual,
                   idx, axes, charts>>

----------------------------------------------------------------------------
(* plot_single_metric: lines 28-113 *)

PlotSingleMetric ==
    /\ pc = "single"
    /\ err = "none"
    /\ LET d == SingleMetricDelta(sets, metric_key)
       IN  IF d.err # "none"
           THEN /\ err' = d.err
                /\ UNCHANGED <<pc, locals, charts, stack>>
           ELSE /\ locals' = d.val
                /\ charts' = Append(charts, [prefix |-> plot_fname_prefix,
                                             name |-> MetricName(metric_key)])
                /\ pc' = IF stack = <<>> THEN "returned" ELSE stack[Len(stack)]
                /\ stack' = IF stack = <<>> THEN stack ELSE SubSeq(stack, 1, Len(stack) - 1)
                /\ UNCHANGED err
    /\ UNCHANGED <<fileIdx, sets, plot_fname_prefix, create_individual,
                   idx, axes, sidx, metric_key>>

----------------------------------------------------------------------------
(* Specifications *)

\* the script run from its start
Next ==
    \/ LoadMetrics
    \/ NextFile
    \/ LoopBody
    \/ SaveCombined
    \/ IndividualLoop
    \/ PlotSingleMetric

Spec == Init /\ [][Next]_vars

\* one call of plot_lora_impact on any four dictionaries of the family
InitCall ==
    /\ pc = "loop"
    /\ err = "none"
    /\ fileIdx = 1
    /\ sets \in CallInputs
    /\ plot_fname_prefix = RemoveSuffix(summary_fnames[1])
    /\ create_individual \in BOOLEAN
    /\ idx = 1
    /\ axes = <<>>
    /\ sidx = 1
    /\ metric_key = ""
    /\ locals = NoLocals
    /\ charts = <<>>
    /\ stack = <<>>

NextCall ==
    \/ LoopBody
    \/ SaveCombined
    \/ IndividualLoop
    \/ PlotSingleMetric

SpecCall == InitCall /\ [][NextCall]_vars

\* one direct call of plot_single_metric on any four dictionaries of the family
InitSingle ==
    /\ pc = "single"
    /\ err = "none"
    /\ fileIdx = 1
    /\ sets \in CallInputs
    /\ plot_fname_prefix = RemoveSuffix(summary_fnames[1])
    /\ create_individual = FALSE
    /\ idx = 1
    /\ axes = <<>>
    /\ sidx = 1
    /\ metric_key \in Keys
    /\ locals = NoLocals
    /\ charts = <<>>
    /\ stack = <<>>

NextSingle == PlotSingleMetric

SpecSingle == InitSingle /\ [][NextSingle]_vars

----------------------------------------------------------------------------
(* Notions the properties are stated in *)

\* the metric names in the order of the metrics list, written out
ExpectedNames ==
    <<"total_tokens_per_sec", "input_tokens_per_sec",
      "output_tokens_per_sec", "requests_per_sec">>

\* the key is in all four dictionaries
AllPresent(s, key) == \A n \in SetNames : key \in DOMAIN s[n]

\* all four values are there and a baseline (precise) value is 0
ZeroRef(s, key) ==
    /\ AllPresent(s, key)
    /\ s.precise_wo_lora[key] = 0 \/ s.precise_w_lora[key] = 0

Healthy(s, key) == AllPresent(s, key) /\ ~ ZeroRef(s, key)

AllHealthy(s) == \A i \in 1..Len(ExpectedNames) : Healthy(s, ExpectedNames[i])

\* the position of the first name of the list that is absent from a dictionary, or 0
FirstMissing(s) ==
    LET M == {i \in 1..Len(ExpectedNames) : ~ AllPresent(s, ExpectedNames[i])}
    IN  IF M = {} THEN 0 ELSE CHOOSE i \in M : \A j \in M : i <= j

\* the position of the first name of the list that is absent or has a zero baseline, or 0
FirstBad(s) ==
    LET M == {i \in 1..Len(ExpectedNames) : ~ Healthy(s, ExpectedNames[i])}
    IN  IF M = {} THEN 0 ELSE CHOOSE i \in M : \A j \in M : i <= j

\* the delta computation of the active frame has run to its end for metric_key
Computed == err = "none" /\ locals # NoLocals

\* q is the fraction n / d * 100
IsPct(q, n, d) == q[2] > 0 /\ q[1] * d = n * 100 * q[2]

\* the four dictionaries with the roles of precise (reference) and random
\* (treatment) exchanged at both LoRA levels
Swapped(s) ==
    [precise_w_lora |-> s.random_w_lora, random_w_lora |-> s.precise_w_lora,
     precise_wo_lora |-> s.random_wo_lora, random_wo_lora |-> s.precise_wo_lora]

IsCombined(c) == c.name = CombinedName

\* the prefix of the charts of the i-th metrics file
ExpectedPrefix(i) ==
    IF i = 1 THEN [stem |-> "summary", stage |-> -1]
    ELSE [stem |-> "stage", stage |-> i - 2]

\* the charts of a complete run, in the order they are saved
ExpectedCharts ==
    << [prefix |-> ExpectedPrefix(1), name |-> "lora_impact_comparison"],
       [prefix |-> ExpectedPrefix(1), name |-> "total-tokens"],
       [prefix |-> ExpectedPrefix(1), name |-> "input-tokens"],
       [prefix |-> ExpectedPrefix(1), name |-> "output-tokens"],
       [prefix |-> ExpectedPrefix(1), name |-> "requests"] >> \o
    [i \in 1..NumStages |->
        [prefix |-> ExpectedPrefix(i + 1), name |-> "lora_impact_comparison"]]

----------------------------------------------------------------------------
(* Properties *)

C2_ZeroBaselineRaises ==
    /\ LET z == FirstBad(sets)
       IN  (z # 0 /\ ZeroRef(sets, ExpectedNames[z])) =>
              /\ pc = "loop"
              /\ Len(axes) < z
              /\ charts = <<>>
              /\ err \in {"none", "ZeroDivisionError"}
              /\ err = "ZeroDivisionError" =>
                    Len(axes) = z - 1 /\ metric_key = ExpectedNames[z]
    /\ \A k \in Keys : ZeroRef(sets, k) =>
          /\ LoraImpactDelta(sets, k).err = "ZeroDivisionError"
          /\ SingleMetricDelta(sets, k).err = "ZeroDivisionError"
    /\ \A i \in 1..Len(axes) :
          axes[i].percentages[1][2] > 0 /\ axes[i].percentages[2][2] > 0
    /\ Computed => locals.wo_lora_pct[2] > 0 /\ locals.w_lora_pct[2] > 0

\* the call has failed on a zero baseline of a later metric, with a non-zero
\* treatment value, after the deltas of the metrics before it were drawn
C2_Witness ==
    /\ err = "ZeroDivisionError"
    /\ Len(axes) >= 1
    /\ sets.random_w_lora[metric_key] # 0
    /\ sets.random_wo_lora[metric_key] # 0

\* four dictionaries whose gaps are -15 without LoRA and -80 with LoRA
GapExample ==
    [precise_wo_lora |-> [k \in Keys |-> 85], random_wo_lora |-> [k \in Keys |-> 100],
     precise_w_lora |-> [k \in Keys |-> 80], random_w_lora |-> [k \in Keys |-> 160]]

\* C3: whenever the delta of a metric has been computed, the gap increase is
\* the gap with LoRA (level B) minus the gap without LoRA (level A); gaps of
\* -15 without LoRA and -80 with LoRA give a gap increase of -65.
C3_GapIncrease ==
    /\ Computed => locals.gap_increase = locals.w_lora_gap - locals.wo_lora_gap
    /\ \A k \in Keys :
          LET d == LoraImpactDelta(GapExample, k)
          IN  /\ d.err = "none"
              /\ d.val.wo_lora_gap = -15
              /\ d.val.w_lora_gap = -80
              /\ d.val.gap_increase = -65

\* a computed delta with two different non-zero gaps and a negative gap increase
C3_Witness ==
    /\ Computed
    /\ locals.w_lora_gap # 0
    /\ locals.wo_lora_gap # 0
    /\ locals.gap_increase < 0

\* C4: whenever the delta of a metric has been computed from four non-zero
\* values, the computation on the dictionaries with precise and random
\* exchanged at both levels succeeds and gives the negated gaps and the negated
\* gap increase.
C4_SwapNegates ==
    (/\ Computed
     /\ locals.precise_wo # 0 /\ locals.precise_w # 0
     /\ locals.random_wo # 0 /\ locals.random_w # 0) =>
        LET d == LoraImpactDelta(Swapped(sets), metric_key)
        IN  /\ d.err = "none"
            /\ d.val.wo_lora_gap = - locals.wo_lora_gap
            /\ d.val.w_lora_gap = - locals.w_lora_gap
            /\ d.val.gap_increase = - locals.gap_increase

\* a delta computed in the loop from four non-zero values with non-zero gaps
\* and a non-zero gap increase
C4_Witness ==
    /\ Computed
    /\ pc = "loop"
    /\ locals.random_wo # 0 /\ locals.random_w # 0
    /\ locals.wo_lora_gap # 0 /\ locals.w_lora_gap # 0
    /\ locals.gap_increase # 0

\* C5: when every name of the list is in all four dictionaries with non-zero
\* baselines, the loop never fails, the subplots drawn so far are those of the
\* first names of the list in list order, one each, and once the loop is over
\* there is one for each of the four names.
C5_ExactlyTheNamesInOrder ==
    AllHealthy(sets) =>
        /\ err = "none"
        /\ Len(axes) <= Len(ExpectedNames)
        /\ pc = "loop" => Len(axes) = idx - 1
        /\ pc # "loop" => Len(axes) = Len(ExpectedNames)
        /\ \A i \in 1..Len(axes) : axes[i].metric_key = ExpectedNames[i]

\* a call on healthy dictionaries has returned with its four subplots drawn
C5_Witness ==
    /\ AllHealthy(sets)
    /\ pc = "returned"
    /\ Len(axes) = 4

\* C6 as stated: when a name of the list is absent from a dictionary, the call
\* fails with KeyError at the first such name: no delta for it or a later
\* name, and no chart saved.
C6_KeyErrorAtFirstMissing ==
    LET m == FirstMissing(sets)
    IN  m # 0 =>
          /\ pc = "loop"
          /\ Len(axes) < m
          /\ charts = <<>>
          /\ err # "none" =>
                err = "KeyError" /\ Len(axes) = m - 1 /\ metric_key = ExpectedNames[m]

\* C6 amended: when a name of the list is absent from a dictionary, the call
\* never gets past the first such name and saves no chart: it fails there with
\* KeyError, unless an earlier name has a zero baseline, in which case it fails
\* at that earlier name with ZeroDivisionError.
C6_FailsAtOrBeforeFirstMissing ==
    LET m == FirstMissing(sets)
    IN  m # 0 =>
          /\ pc = "loop"
          /\ Len(axes) < m
          /\ charts = <<>>
          /\ err \in {"none", "KeyError", "ZeroDivisionError"}
          /\ err = "KeyError" =>
                Len(axes) = m - 1 /\ metric_key = ExpectedNames[m]
          /\ err = "ZeroDivisionError" =>
                /\ Len(axes) < m - 1
                /\ metric_key = ExpectedNames[Len(axes) + 1]
                /\ ZeroRef(sets, metric_key)
          /\ (err # "none" /\ \A i \in 1..(m - 1) : ~ ZeroRef(sets, ExpectedNames[i]))
                => err = "KeyError"

\* the call has failed with KeyError at the third name after two deltas
C6_Witness ==
    /\ err = "KeyError"
    /\ FirstMissing(sets) = 3
    /\ Len(axes) = 2

\* C7: in a run, the combined charts saved are those of the files completed
\* so far, in file order, and every chart belongs to such a file; when the run
\* has failed (in a load or in the analysis of file fileIdx) it has stopped in
\* that file, with the combined charts of exactly the files before it and no
\* chart of that file or a later one.
C7_FailureEndsTheRun ==
    LET comb == SelectSeq(charts, IsCombined)
        saved == IF pc \in {"individual", "single", "returned"}
                 THEN fileIdx ELSE fileIdx - 1
    IN  /\ Len(comb) = saved
        /\ \A i \in 1..Len(comb) : comb[i].prefix = ExpectedPrefix(i)
        /\ \A j \in 1..Len(charts) :
              \E i \in 1..saved : charts[j].prefix = ExpectedPrefix(i)
        /\ err # "none" =>
              /\ pc \in {"main", "loop"}
              /\ fileIdx <= Len(summary_fnames)
              /\ Len(comb) = fileIdx - 1

\* the analysis of a stage file has failed after the files before it were charted
C7_Witness ==
    /\ err = "KeyError"
    /\ fileIdx = 3
    /\ Len(charts) = 6

\* C9: the charts saved in a run are a beginning of: the combined chart of the
\* summary file, its individual charts for total, input, output and requests,
\* then one combined chart per stage file; once the summary file is done all
\* five of its charts are there.
C9_IndividualChartsOnlyForSummary ==
    /\ Len(charts) <= Len(ExpectedCharts)
    /\ charts = SubSeq(ExpectedCharts, 1, Len(charts))
    /\ fileIdx > 1 => Len(charts) >= 5

\* a complete run: 18 combined charts and the 4 individual ones
C9_Witness ==
    /\ pc = "done"
    /\ Len(charts) = 22

\* C8: no step of a call changes the four dictionaries, and what the call has
\* drawn or computed is what the delta computation gives again on the
\* dictionaries as they are now.
C8_InputsUnchanged ==
    /\ [][sets' = sets]_vars
    /\ [](/\ \A i \in 1..Len(axes) :
               LET d == LoraImpactDelta(sets, axes[i].metric_key)
               IN  /\ d.err = "none"
                   /\ axes[i].gaps = <<d.val.w_lora_gap, d.val.wo_lora_gap>>
                   /\ axes[i].percentages = <<d.val.w_lora_pct, d.val.wo_lora_pct>>
          /\ Computed =>
               locals \in {LoraImpactDelta(sets, metric_key).val,
                           SingleMetricDelta(sets, metric_key).val})

\* a call has returned after the four deltas, the combined chart and the
\* four individual charts
C8_Witness ==
    /\ pc = "returned"
    /\ Len(axes) = 4
    /\ Len(charts) = 5
    /\ locals.gap_increase # 0

\* C10: on every metric key the delta computation of plot_single_metric gives
\* what that of plot_lora_impact gives (the same exception or the same gaps,
\* percentages and gap increase), and a direct call of plot_single_metric ends
\* as the loop body of plot_lora_impact would on the same key.
C10_SameDeltaLogic ==
    /\ \A k \in Keys : SingleMetricDelta(sets, k) = LoraImpactDelta(sets, k)
    /\ (pc = "returned" \/ err # "none") =>
          LET d == LoraImpactDelta(sets, metric_key)
          IN  /\ err = d.err
              /\ d.err = "none" => locals = d.val

\* a direct call of plot_single_metric has returned with two different
\* non-zero gaps
C10_Witness ==
    /\ pc = "returned"
    /\ locals # NoLocals
    /\ locals.wo_lora_gap # 0
    /\ locals.w_lora_gap # 0
    /\ locals.gap_increase # 0

====
